---- MODULE Spec2Model ----
(***************************************************************************)
(* Food Flow Tracker (src/represnent.py): the session's record store, the  *)
(* aggregation functions and one render pass of main().                    *)
(*                                                                         *)
(* Quantities are fixed-point integers in hundredths (1.0 = 100), dates    *)
(* are day numbers relative to datetime.today() (today = 0).  A derived    *)
(* percentage is a record [kind, num, den]: the rational num/den, or the   *)
(* float specials "nan" / "inf" that a pandas Series division yields.      *)
(***************************************************************************)
EXTENDS Integers, Sequences, FiniteSets, TLC

VARIABLES
    food_data,      \* st.session_state.food_data: sequence of records
    n_sample,       \* how many leading records of food_data came from create_sample_data
    pc,             \* position of the running script in main()
    selected_date,  \* st.date_input value
    view_mode,      \* st.selectbox("View Mode") value
    submitted,      \* st.form_submit_button value for this pass
    form,           \* the values of the widgets inside food_form
    summary,        \* local `summary` of main (line 206)
    category_data,  \* local `category_data` of main (line 261)
    trend_data,     \* local `trend_data` of main (lines 282-291)
    message,        \* st.success / st.warning raised by the form block
    error,          \* the uncaught exception that ended the pass, if any
    rendered,       \* the page sections this pass has rendered so far
    store0          \* food_data as it was when the pass began

vars == <<food_data, n_sample, pc, selected_date, view_mode, submitted, form,
          summary, category_data, trend_data, message, error, rendered, store0>>

----------------------------------------------------------------------------
(* Bounds of the model *)

\* num_days (7 in the source): the number of sample dates
NumDays == 2
\* random.randint(5, 10) items per day is drawn from 1..MaxItemsPerDay
MaxItemsPerDay == 1
\* the form is not submitted with a name once the store holds this many records;
\* also the longest store the aggregation functions are applied to in AggSpec
MaxRecords == 4

----------------------------------------------------------------------------
(* Values *)

today == 0
SecondsPerDay == 86400

None  == [kind |-> "None"]
Unset == [kind |-> "unset"]
Zero  == [kind |-> "num", num |-> 0, den |-> 1]
NaN   == [kind |-> "nan", num |-> 0, den |-> 0]
Inf   == [kind |-> "inf", num |-> 0, den |-> 0]

\* pd.to_datetime(date): the timestamp of the date's midnight
ToDatetime(d) == d * SecondsPerDay
\* Timestamp.date()
TimestampDate(ts) == ts \div SecondsPerDay

\* round(x, ndigits) on a value in hundredths, ndigits in {1, 2}; ties to even
Round(x, ndigits) ==
    LET unit == IF ndigits = 1 THEN 10 ELSE 1
        q == x \div unit
        r == x % unit
    IN  IF 2 * r > unit \/ (2 * r = unit /\ q % 2 = 1)
        THEN (q + 1) * unit
        ELSE q * unit

RECURSIVE SumCol(_, _)
\* Series.sum() of column col over the rows
SumCol(rows, col) ==
    IF rows = <<>> THEN 0 ELSE Head(rows)[col] + SumCol(Tail(rows), col)

RECURSIVE SortAsc(_)
\* the sorted group keys of DataFrame.groupby (sort=True)
SortAsc(S) ==
    IF S = {} THEN <<>>
    ELSE LET m == CHOOSE x \in S : \A y \in S : x <= y
         IN  <<m>> \o SortAsc(S \ {m})

----------------------------------------------------------------------------
(* create_sample_data *)

sample_items == <<"Rice", "Chicken", "Vegetables", "Bread", "Milk", "Eggs",
                  "Fruits", "Pasta", "Beef", "Salad">>
sample_categories == <<"Grains", "Protein", "Vegetables", "Grains", "Dairy",
                       "Protein", "Fruits", "Grains", "Protein", "Vegetables">>
units == <<"kg", "kg", "kg", "loaf", "L", "dozen", "kg", "kg", "kg", "kg">>

\* sample_dates[i] = today - i for i in range(num_days), 1-based here
sample_dates == [i \in 1..NumDays |-> today - (i - 1)]

\* list.index(x): the first position holding x
Index(seq, x) ==
    CHOOSE i \in 1..Len(seq) : seq[i] = x /\ \A j \in 1..(i - 1) : seq[j] # x

\* random.choice(seq): the outcomes considered are the first two elements
random_choice(seq) == {seq[i] : i \in {1, 2}}

\* random.uniform(a, b): one outcome per call, two thirds of the way to b
uniform(a, b) == {(a + 2 * b) \div 3}

\* prepared = round(random.uniform(1, 5), 1)
PreparedDraws == {Round(x, 1) : x \in uniform(100, 500)}

\* consumed = round(random.uniform(0, prepared), 1)
ConsumedDraws(prepared) == {Round(y, 1) : y \in uniform(0, prepared)}

\* variant of SampleWasted: the operands of the subtraction swapped
SampleWastedSwapped(prepared, consumed) == Round(consumed - prepared, 2)

\* wasted = round(prepared - consumed, 2)
SampleWasted(prepared, consumed) == Round(prepared - consumed, 2)

\* the records one iteration of the inner loop can append for `date`
SampleRecords(date) ==
    UNION { UNION { {
        [date         |-> date,
         item_name    |-> item,
         category     |-> sample_categories[Index(sample_items, item)],
         prepared_qty |-> prepared,
         consumed_qty |-> consumed,
         wasted_qty   |-> SampleWasted(prepared, consumed),
         unit         |-> units[Index(sample_items, item)]]
        : consumed \in ConsumedDraws(prepared) }
        : prepared \in PreparedDraws }
        : item \in random_choice(sample_items) }

\* the records of one date: random.randint(..) of them, in loop order
DayBlocks(date) ==
    UNION { [1..n -> SampleRecords(date)] : n \in 1..MaxItemsPerDay }

RECURSIVE SampleFrom(_)
SampleFrom(i) ==
    IF i > NumDays THEN {<<>>}
    ELSE { b \o rest : b \in DayBlocks(sample_dates[i]), rest \in SampleFrom(i + 1) }

\* every DataFrame create_sample_data() can return
create_sample_data == SampleFrom(1)

----------------------------------------------------------------------------
(* calculate_daily_summary *)

\* df[df['date'] == pd.to_datetime(date).date()]
DailyRows(df, date) ==
    SelectSeq(df, LAMBDA r : r.date = TimestampDate(ToDatetime(date)))

\* variant of IsEmpty: a day with nothing prepared also counts as empty
IsEmptyOrUnprepared(daily) == daily = <<>> \/ SumCol(daily, "prepared_qty") = 0

\* daily.empty
IsEmpty(daily) == daily = <<>>

\* variant of PyRate: the factor 100 left out
PyRateNoScale(a, b) == [kind |-> "num", num |-> a, den |-> b]

\* a / b * 100 on two sums, b # 0
PyRate(a, b) == [kind |-> "num", num |-> a * 100, den |-> b]

calculate_daily_summary(df, date) ==
    LET daily == DailyRows(df, date)
        tp == SumCol(daily, "prepared_qty")
        tc == SumCol(daily, "consumed_qty")
        tw == SumCol(daily, "wasted_qty")
    IN  IF IsEmpty(daily) THEN None
        ELSE [kind             |-> "dict",
              total_prepared   |-> tp,
              total_consumed   |-> tc,
              total_wasted     |-> tw,
              utilization_rate |-> IF tp # 0 THEN PyRate(tc, tp) ELSE Zero,
              waste_percentage |-> IF tp # 0 THEN PyRate(tw, tp) ELSE Zero]

----------------------------------------------------------------------------
(* groupby(...).agg(sum).reset_index() in the Category Analysis and Trends tabs *)

\* variant of GroupAgg: the 'first' aggregation instead of 'sum'
GroupAggFirst(rows, col) == Head(rows)[col]

\* the 'sum' aggregation of one group's column
GroupAgg(rows, col) == SumCol(rows, col)

\* the category strings the program can store, in the order groupby sorts them
CategoryOrder == <<"Dairy", "Fruits", "Grains", "Other", "Protein", "Vegetables">>

\* food_data.groupby('category').agg({...: 'sum'}).reset_index()
GroupByCategory(df) ==
    LET keys == SelectSeq(CategoryOrder,
                          LAMBDA c : \E i \in 1..Len(df) : df[i].category = c)
    IN  [k \in 1..Len(keys) |->
            LET rows == SelectSeq(df, LAMBDA r : r.category = keys[k])
            IN  [category     |-> keys[k],
                 prepared_qty |-> GroupAgg(rows, "prepared_qty"),
                 consumed_qty |-> GroupAgg(rows, "consumed_qty"),
                 wasted_qty   |-> GroupAgg(rows, "wasted_qty")]]

\* variant of DateKeys: groupby(sort=False), keys in order of first appearance
FirstSeenKeys(df) ==
    LET RECURSIVE Scan(_, _)
        Scan(i, acc) ==
            IF i > Len(df) THEN acc
            ELSE Scan(i + 1,
                      IF \E j \in 1..Len(acc) : acc[j] = df[i].date
                      THEN acc ELSE Append(acc, df[i].date))
    IN  Scan(1, <<>>)

\* the group keys of groupby('date'): the distinct dates, ascending
DateKeys(df) == SortAsc({df[i].date : i \in 1..Len(df)})

\* a Series divided by a Series, times 100: element-wise float division
SeriesRate(a, b) ==
    IF b = 0 THEN (IF a = 0 THEN NaN ELSE Inf) ELSE PyRate(a, b)

\* lines 282-291: trend_data with its two derived columns
TrendSeries(df) ==
    LET td   == [i \in 1..Len(df) |-> [df[i] EXCEPT !.date = ToDatetime(@)]]
        keys == DateKeys(td)
        grouped == [k \in 1..Len(keys) |->
            LET rows == SelectSeq(td, LAMBDA r : r.date = keys[k])
            IN  [date         |-> keys[k],
                 prepared_qty |-> GroupAgg(rows, "prepared_qty"),
                 consumed_qty |-> GroupAgg(rows, "consumed_qty"),
                 wasted_qty   |-> GroupAgg(rows, "wasted_qty")]]
        total == SumCol(grouped, "prepared_qty")
    IN  [k \in 1..Len(keys) |->
            [date             |-> grouped[k].date,
             prepared_qty     |-> grouped[k].prepared_qty,
             consumed_qty     |-> grouped[k].consumed_qty,
             wasted_qty       |-> grouped[k].wasted_qty,
             utilization_rate |-> IF total # 0
                                  THEN SeriesRate(grouped[k].consumed_qty, grouped[k].prepared_qty)
                                  ELSE Zero,
             waste_percentage |-> IF total # 0
                                  THEN SeriesRate(grouped[k].wasted_qty, grouped[k].prepared_qty)
                                  ELSE Zero]]

\* the columns of trend_data after line 291
TrendColumns == {"date", "prepared_qty", "consumed_qty", "wasted_qty",
                 "utilization_rate", "waste_percentage"}

\* variant of TrendChartY: the first column spelled as line 290 creates it
TrendChartYCorrected == {"utilization_rate", "waste_percentage"}

\* the y columns the second px.line is asked to plot (line 302)
TrendChartY == {"util.inoization_rate", "waste_percentage"}

\* plotly express raises ValueError for a y name that is no column of the frame
PxLineRaises(columns, y) == ~(y \subseteq columns)

----------------------------------------------------------------------------
(* The widgets *)

ViewModes == {"Daily", "Weekly", "Monthly"}
Categories == {"Grains", "Protein", "Vegetables", "Fruits", "Dairy", "Other"}
Units == {"kg", "g", "L", "ml", "piece", "dozen", "loaf", "other"}

\* the dates the user picks from: the sample dates and the day before them
SelectableDates == (today - NumDays)..today

\* the widgets' initial values (lines 175-185)
FormDefaults ==
    [item_name |-> "", category |-> "Grains", prepared_qty |-> 100,
     consumed_qty |-> 80, wasted_qty |-> 5, unit |-> "kg"]

\* the fillings of the form the user submits
FormInputs ==
    { FormDefaults,
      [FormDefaults EXCEPT !.item_name = "Soup"],
      [item_name |-> "Soup", category |-> "Other", prepared_qty |-> 0,
       consumed_qty |-> 0, wasted_qty |-> 0, unit |-> "piece"] }

\* variant of ItemAccepted: the item_name test left out
ItemAcceptedAnyName == submitted

\* `if submitted and item_name:` (line 188)
ItemAccepted == submitted /\ form.item_name # ""

\* new_entry (lines 189-197)
new_entry ==
    [date         |-> selected_date,
     item_name    |-> form.item_name,
     category     |-> form.category,
     prepared_qty |-> form.prepared_qty,
     consumed_qty |-> form.consumed_qty,
     wasted_qty   |-> form.wasted_qty,
     unit         |-> form.unit]

----------------------------------------------------------------------------
(* The session: seeding, then one render pass of main() per interaction *)

\* lines 142-143 have seeded the store; the first run of main() begins with
\* every widget at its default
Init ==
    /\ food_data \in create_sample_data
    /\ n_sample = Len(food_data)
    /\ store0 = food_data
    /\ pc = "form"
    /\ selected_date = today
    /\ view_mode = "Daily"
    /\ submitted = FALSE
    /\ form = FormDefaults
    /\ summary = Unset
    /\ category_data = <<>>
    /\ trend_data = <<>>
    /\ message = "none"
    /\ error = "none"
    /\ rendered = {}

\* a user interaction reruns the script: lines 162-187 read the widgets
Interact ==
    /\ pc = "idle"
    /\ \E d \in SelectableDates, v \in ViewModes, s \in BOOLEAN, f \in FormInputs :
        /\ (s /\ f.item_name # "") => Len(food_data) < MaxRecords
        /\ selected_date' = d
        /\ view_mode' = v
        /\ submitted' = s
        /\ form' = IF s THEN f ELSE FormDefaults
    /\ pc' = "form"
    /\ store0' = food_data
    /\ summary' = Unset
    /\ category_data' = <<>>
    /\ trend_data' = <<>>
    /\ message' = "none"
    /\ error' = "none"
    /\ rendered' = {}
    /\ UNCHANGED <<food_data, n_sample>>

\* lines 187-201: the add-item step
FoodForm ==
    /\ pc = "form"
    /\ IF ItemAccepted
       THEN /\ food_data' = food_data \o <<new_entry>>
            /\ message' = "success"
       ELSE /\ food_data' = food_data
            /\ message' = IF submitted THEN "warning" ELSE "none"
    /\ pc' = "metrics"
    /\ UNCHANGED <<n_sample, selected_date, view_mode, submitted, form, summary,
                   category_data, trend_data, error, rendered, store0>>

\* lines 203-238: the metrics dashboard
Metrics ==
    /\ pc = "metrics"
    /\ summary' = IF view_mode = "Daily"
                  THEN calculate_daily_summary(food_data, selected_date)
                  ELSE Unset
    /\ rendered' = rendered \cup {"metrics"}
    /\ pc' = "viz"
    /\ UNCHANGED <<food_data, n_sample, selected_date, view_mode, submitted, form,
                   category_data, trend_data, message, error, store0>>

\* lines 240-298: the three tabs up to the first trend chart
Visualization ==
    /\ pc = "viz"
    /\ category_data' = GroupByCategory(food_data)
    /\ trend_data' = TrendSeries(food_data)
    /\ rendered' = rendered \cup {"daily_flow", "category", "trends"}
    /\ pc' = "fig2"
    /\ UNCHANGED <<food_data, n_sample, selected_date, view_mode, submitted, form,
                   summary, message, error, store0>>

\* lines 300-336: the second trend chart, then the Detailed Records section
\* (which reseeds the store) and the export section
Fig2AndRecords ==
    /\ pc = "fig2"
    /\ IF PxLineRaises(TrendColumns, TrendChartY)
       THEN /\ error' = "ValueError"
            /\ UNCHANGED <<food_data, n_sample, rendered>>
       ELSE /\ error' = "none"
            /\ \E s \in create_sample_data :
                /\ food_data' = s
                /\ n_sample' = Len(s)
            /\ rendered' = rendered \cup {"records", "export"}
    /\ pc' = "idle"
    /\ UNCHANGED <<selected_date, view_mode, submitted, form, summary,
                   category_data, trend_data, message, store0>>

Next == Interact \/ FoodForm \/ Metrics \/ Visualization \/ Fig2AndRecords

Spec == Init /\ [][Next]_vars

----------------------------------------------------------------------------
(* The aggregation functions applied to arbitrary stores *)

AggDates == (today - 1)..today

AggRecords ==
    { [date |-> d, item_name |-> "Rice", category |-> c, prepared_qty |-> q[1],
       consumed_qty |-> q[2], wasted_qty |-> q[3], unit |-> "kg"]
      : d \in AggDates, c \in {"Grains", "Protein"},
        q \in {<<0, 0, 0>>, <<100, 80, 5>>} }

AggStores == UNION { [1..n -> AggRecords] : n \in 0..MaxRecords }

AggInit ==
    /\ food_data \in AggStores
    /\ n_sample = 0
    /\ store0 = food_data
    /\ pc = "agg_daily"
    /\ selected_date \in AggDates
    /\ view_mode = "Daily"
    /\ submitted = FALSE
    /\ form = FormDefaults
    /\ summary = Unset
    /\ category_data = <<>>
    /\ trend_data = <<>>
    /\ message = "none"
    /\ error = "none"
    /\ rendered = {}

AggDaily ==
    /\ pc = "agg_daily"
    /\ summary' = calculate_daily_summary(food_data, selected_date)
    /\ pc' = "agg_category"
    /\ UNCHANGED <<food_data, n_sample, selected_date, view_mode, submitted, form,
                   category_data, trend_data, message, error, rendered, store0>>

AggCategory ==
    /\ pc = "agg_category"
    /\ category_data' = GroupByCategory(food_data)
    /\ pc' = "agg_trend"
    /\ UNCHANGED <<food_data, n_sample, selected_date, view_mode, submitted, form,
                   summary, trend_data, message, error, rendered, store0>>

AggTrend ==
    /\ pc = "agg_trend"
    /\ trend_data' = TrendSeries(food_data)
    /\ pc' = "agg_done"
    /\ UNCHANGED <<food_data, n_sample, selected_date, view_mode, submitted, form,
                   summary, category_data, message, error, rendered, store0>>

AggNext == AggDaily \/ AggCategory \/ AggTrend

AggSpec == AggInit /\ [][AggNext]_vars

----------------------------------------------------------------------------
(* Properties *)

RECURSIVE SumOver(_, _, _)
\* the sum of column col over the rows of `rows` at the positions in I
SumOver(I, rows, col) ==
    IF I = {} THEN 0
    ELSE LET i == CHOOSE x \in I : TRUE
         IN  rows[i][col] + SumOver(I \ {i}, rows, col)

Positions(rows) == 1..Len(rows)
DatedAt(rows, d) == {i \in Positions(rows) : rows[i].date = d}
QtyCols == {"prepared_qty", "consumed_qty", "wasted_qty"}

\* r is the number a / b * 100
IsPercentOf(r, a, b) == r.kind = "num" /\ r.den # 0 /\ r.num * b = a * 100 * r.den
\* r is exactly 0
IsZero(r) == r.kind = "num" /\ r.den # 0 /\ r.num = 0

\* C1: calculate_daily_summary(records, d) is None exactly when no record of
\* the store is dated d; with a matching record, even an all-zero one, it is a
\* summary.
C1_NoneIffNoMatch ==
    summary # Unset =>
        /\ summary.kind \in {"None", "dict"}
        /\ (summary = None) <=> (DatedAt(food_data, selected_date) = {})

\* C1 case: the only records of the selected date have all three quantities 0,
\* and a summary was returned
C1_Witness ==
    /\ pc = "agg_done"
    /\ summary.kind = "dict"
    /\ DatedAt(food_data, selected_date) # {}
    /\ \A i \in DatedAt(food_data, selected_date) :
        \A col \in QtyCols : food_data[i][col] = 0

\* C2: the summary's three totals are the sums over exactly the records dated
\* d, with wasted_qty summed as given; the two percentages are
\* total / total_prepared * 100 when total_prepared > 0 and exactly 0 when it
\* is 0.
C2_DailyTotals ==
    summary.kind = "dict" =>
        LET I  == DatedAt(food_data, selected_date)
            tp == SumOver(I, food_data, "prepared_qty")
            tc == SumOver(I, food_data, "consumed_qty")
            tw == SumOver(I, food_data, "wasted_qty")
        IN  /\ summary.total_prepared = tp
            /\ summary.total_consumed = tc
            /\ summary.total_wasted = tw
            /\ tp > 0 => /\ IsPercentOf(summary.utilization_rate, tc, tp)
                         /\ IsPercentOf(summary.waste_percentage, tw, tp)
            /\ tp = 0 => /\ IsZero(summary.utilization_rate)
                         /\ IsZero(summary.waste_percentage)

\* C2 case: a summary with a positive prepared total, over a store that also
\* holds records of another date and whose wasted total is not
\* prepared - consumed
C2_Witness ==
    /\ pc = "agg_done"
    /\ summary.kind = "dict"
    /\ summary.total_prepared > 0
    /\ summary.total_wasted # summary.total_prepared - summary.total_consumed
    /\ \E i \in Positions(food_data) :
        food_data[i].date # selected_date /\ food_data[i].prepared_qty > 0

\* C3: every row of the trend series has its two percentages computed from
\* its own sums, and a date whose prepared sum is 0 has both equal to 0, also
\* when other dates have a non-zero prepared total.
C3_TrendZeroPolicy ==
    pc \in {"fig2", "idle"} =>
        \A k \in Positions(trend_data) :
            LET row == trend_data[k]
            IN  IF row.prepared_qty = 0
                THEN IsZero(row.utilization_rate) /\ IsZero(row.waste_percentage)
                ELSE /\ IsPercentOf(row.utilization_rate, row.consumed_qty, row.prepared_qty)
                     /\ IsPercentOf(row.waste_percentage, row.wasted_qty, row.prepared_qty)

\* C4: the category summary has exactly one group per category present in the
\* store, the groups' sums of each quantity add up to the store's sum of it,
\* and the summary of an empty store is empty.
C4_CategoryMass ==
    pc \in {"agg_trend", "agg_done"} =>
        LET present == {food_data[i].category : i \in Positions(food_data)}
        IN  /\ \A c \in present :
                Cardinality({k \in Positions(category_data) :
                                category_data[k].category = c}) = 1
            /\ \A k \in Positions(category_data) : category_data[k].category \in present
            /\ \A col \in QtyCols :
                SumOver(Positions(category_data), category_data, col)
                    = SumOver(Positions(food_data), food_data, col)
            /\ food_data = <<>> => category_data = <<>>

\* C4 case: two groups, one of them made of several records, non-zero mass
C4_Witness ==
    /\ pc = "agg_done"
    /\ Len(category_data) = 2
    /\ Len(food_data) >= 3
    /\ category_data[1].prepared_qty > 100

\* C5: the trend series holds each date of the store once, in strictly
\* ascending order, whatever the order of the records, and each date's three
\* totals are the sums over the records of that date.
C5_TrendDates ==
    pc = "agg_done" =>
        /\ \A j, k \in Positions(trend_data) :
            j < k => trend_data[j].date < trend_data[k].date
        /\ {TimestampDate(trend_data[k].date) : k \in Positions(trend_data)}
                = {food_data[i].date : i \in Positions(food_data)}
        /\ \A k \in Positions(trend_data) : \A col \in QtyCols :
            trend_data[k][col]
                = SumOver(DatedAt(food_data, TimestampDate(trend_data[k].date)),
                          food_data, col)

\* C5 case: records appended latest date first, one date occurring twice
C5_Witness ==
    /\ pc = "agg_done"
    /\ Len(trend_data) = 2
    /\ Len(food_data) >= 3
    /\ food_data[1].date > food_data[2].date
    /\ food_data[3].date = food_data[1].date
    /\ trend_data[2].prepared_qty > 100

\* C6: every pass replaces the store by fresh sample data before the table is
\* rendered, so a record added through the form in a pass is not in the store
\* when the pass ends.
C6_ReseedDiscardsAdded ==
    (pc = "idle" /\ submitted /\ form.item_name # "") =>
        /\ Len(food_data) = n_sample
        /\ \A i \in Positions(food_data) : food_data[i] # new_entry

C8_PassCompletes ==
    pc = "idle" =>
        /\ error = "none"
        /\ {"metrics", "category", "trends", "records", "export"} \subseteq rendered

\* C9: the add-item step changes the store iff the form was submitted with a
\* non-empty item_name; it then appends one record with the selected date and
\* the submitted fields after the earlier records, and the daily summary of the
\* same pass counts it; a submission with an empty name leaves the store alone
\* and raises a warning, not an error.
C9_AddItemStep ==
    pc \in {"metrics", "viz", "fig2"} =>
        LET named == submitted /\ form.item_name # ""
            rec == [date |-> selected_date, item_name |-> form.item_name,
                    category |-> form.category, prepared_qty |-> form.prepared_qty,
                    consumed_qty |-> form.consumed_qty, wasted_qty |-> form.wasted_qty,
                    unit |-> form.unit]
            I == DatedAt(store0, selected_date)
        IN  /\ named => food_data = Append(store0, rec) /\ message = "success"
            /\ ~named => food_data = store0
            /\ (submitted /\ form.item_name = "") => message = "warning" /\ error = "none"
            /\ (named /\ view_mode = "Daily" /\ pc # "metrics") =>
                /\ summary.kind = "dict"
                /\ \A col \in QtyCols :
                    summary[IF col = "prepared_qty" THEN "total_prepared"
                            ELSE IF col = "consumed_qty" THEN "total_consumed"
                            ELSE "total_wasted"]
                        = SumOver(I, store0, col) + form[col]

\* C9 case: a second record is added on a date that already has records, and
\* the daily summary has been computed
C9_Witness ==
    /\ pc = "fig2"
    /\ submitted /\ form.item_name # ""
    /\ view_mode = "Daily"
    /\ Len(food_data) = n_sample + 2
    /\ DatedAt(store0, selected_date) # {}

====
